---- MODULE Spec2Model ----
(***************************************************************************)
(* SogniClientWrapper: the connection-state machine, the reconnect timer   *)
(* and the timeout-guarded project flow, as an event-loop state machine.   *)
(* One action is one turn of the event loop: a public method up to its     *)
(* first suspension, or the resumption of a suspended call when the SDK    *)
(* promise or the timer it awaits settles, run to its next suspension.     *)
(***************************************************************************)
EXTENDS Integers, Sequences, FiniteSets, TLC

VARIABLES
  client,           \* this.client: None or Some("sdk")
  config,           \* this.config: the fields read after construction
  connectionState,  \* this.connectionState
  reconnectTimer,   \* this.reconnectTimer: None or Some([delay |-> ms])
  pendingTimers,    \* number of setTimeout timers of scheduleReconnect not yet fired or cleared
  isReconnecting,   \* this.isReconnecting
  errorListener,    \* EventEmitter: a listener is registered for 'error'
  calls,            \* the asynchronous invocations in progress, by slot
  emitted,          \* events dispatched during the last turn, in order
  returned,         \* invocations settled during the last turn
  attempt,          \* fate of the handshake that ended during the last turn
  retryCall,        \* the invocation of retry() in progress, with what it did so far
  raised,           \* notifications the SDK raised on a project during the last turn
  invoked,          \* the caller's callbacks invoked during the last turn
  probe             \* the last call of a helper or query: its arguments and outcome

vars == <<client, config, connectionState, reconnectTimer, pendingTimers, isReconnecting,
          errorListener, calls, emitted, returned, attempt, retryCall, raised, invoked, probe>>

\* Bounds of the model
MaxCalls == 2
MaxReconnectAttempts == 2
MaxRetryAttempts == 3
MaxModels == 3

\* Program constants
DefaultReconnectInterval == 5000
DefaultTimeout == 300000
DefaultMaxAttempts == 3
DefaultInitialDelay == 1000
DefaultMaxDelay == 10000
DefaultBackoffFactor == 2
DefaultRetryDelay == 2000

Slots == 1..MaxCalls

\* Optional values: undefined / null is the empty tuple
None == <<>>
Some(x) == <<x>>
IsSome(o) == Len(o) > 0
Get(o) == o[1]

----------------------------------------------------------------------------
\* Error taxonomy

SogniError(name, message, code, statusCode, details, originalError) ==
  [name |-> name, message |-> message, code |-> code, statusCode |-> statusCode,
   details |-> details, originalError |-> originalError]

SogniConnectionError(message, originalError) ==
  SogniError("SogniConnectionError", message, "CONNECTION_ERROR", None, None, Some(originalError))

SogniAuthenticationError(message, originalError) ==
  SogniError("SogniAuthenticationError", message, "AUTHENTICATION_ERROR", Some(401), None,
             Some(originalError))

SogniProjectError(message, originalError) ==
  SogniError("SogniProjectError", message, "PROJECT_ERROR", None, None, Some(originalError))

SogniTimeoutError(message, timeoutMs) ==
  SogniError("SogniTimeoutError", message, "TIMEOUT_ERROR", Some(408),
             Some([timeoutMs |-> timeoutMs]), None)

SogniBalanceError(message) ==
  SogniError("SogniBalanceError", message, "INSUFFICIENT_BALANCE", Some(402), None, None)

SogniValidationError(message) ==
  SogniError("SogniValidationError", message, "VALIDATION_ERROR", Some(400), None, None)

SogniConfigurationError(message) ==
  SogniError("SogniConfigurationError", message, "CONFIGURATION_ERROR", None, None, None)

SogniModelNotFoundError(modelId) ==
  SogniError("SogniModelNotFoundError", "Model not found: " \o modelId, "MODEL_NOT_FOUND",
             Some(404), Some([modelId |-> modelId]), None)

SogniNetworkError(message, originalError) ==
  SogniError("SogniNetworkError", message, "NETWORK_ERROR", None, None, Some(originalError))

\* Values thrown from outside the taxonomy: a JavaScript Error (no code), a
\* TypeError, or a thrown value that is no Error at all
JsError(message) == SogniError("Error", message, "", None, None, None)
JsTypeError(message) == SogniError("TypeError", message, "", None, None, None)
NonError(message) == SogniError("NotAnError", message, "", None, None, None)

InstanceOfError(e) == e.name # "NotAnError"
InstanceOfSogniError(e) == e.name \notin {"Error", "TypeError", "NotAnError"}

\* What EventEmitter.emit('error', data) throws when no listener is registered
UnhandledError == SogniError("Error", "Unhandled error.", "ERR_UNHANDLED_ERROR", None, None, None)

ToErrorDataNameAsCode(e) ==
  [code |-> e.name, message |-> e.message, statusCode |-> e.statusCode,
   details |-> e.details, originalError |-> e.originalError]

ToErrorData(e) ==
  [code |-> e.code, message |-> e.message, statusCode |-> e.statusCode,
   details |-> e.details, originalError |-> e.originalError]

FromError(e, code) ==
  IF InstanceOfSogniError(e) THEN e
  ELSE IF InstanceOfError(e) THEN SogniError("SogniError", e.message, code, None, None, Some(e))
  ELSE SogniError("SogniError", e.message, code, None, None, None)

\* fromError(error): code = 'UNKNOWN_ERROR'
DefaultErrorCode == "UNKNOWN_ERROR"

\* No helper or query was called
NoProbe == [fn |-> "none"]

----------------------------------------------------------------------------
\* What the SDK's promises reject with. Messages the wrapper inspects are
\* spelled as character sequences.

\* String.prototype.includes
Includes(msg, pat) ==
  \E i \in 1..(Len(msg) - Len(pat) + 1) : SubSeq(msg, i, i + Len(pat) - 1) = pat

AuthToken == <<"a", "u", "t", "h">>

CauseNoAuth == JsError(<<"n", "o", "a", "u", "t", "h">>)
CauseDown == JsError(<<"d", "o", "w", "n">>)
\* Reading a property of this.client when it is null
CauseNullDeref == JsTypeError(<<"n", "u", "l", "l">>)

SdkCauses == {CauseNoAuth, CauseDown}

----------------------------------------------------------------------------
\* Validation of a project request. A field is [t |-> typeof, v |-> value].

Undefined == [t |-> "undefined"]
Num(n) == [t |-> "number", v |-> n]
Str(s) == [t |-> "string", v |-> s]
Bool(b) == [t |-> "boolean", v |-> b]

\* The number NaN: typeof NaN is 'number', NaN is falsy, and every
\* comparison with NaN is false
NaN == [t |-> "number", nan |-> TRUE]

Truthy(x) ==
  \/ x.t = "function"
  \/ x.t = "string" /\ x.v # ""
  \/ x.t = "number" /\ x # NaN /\ x.v # 0
  \/ x.t = "boolean" /\ x.v

\* typeof x !== 'number' || x < lo || x > hi
OutOfRange(x, lo, hi) == x.t # "number" \/ (x # NaN /\ (x.v < lo \/ x.v > hi))

NotOneOf(x, allowed) == ~(x.t = "string" /\ x.v \in allowed)

validateProjectConfig(cfg) ==
  IF ~Truthy(cfg.modelId) \/ cfg.modelId.t # "string"
    THEN Some(SogniValidationError("Model ID is required and must be a string"))
  ELSE IF ~Truthy(cfg.positivePrompt) \/ cfg.positivePrompt.t # "string"
    THEN Some(SogniValidationError("Positive prompt is required and must be a string"))
  ELSE IF cfg.numberOfImages # Undefined /\ OutOfRange(cfg.numberOfImages, 1, 10)
    THEN Some(SogniValidationError("Number of images must be between 1 and 10"))
  ELSE IF cfg.steps # Undefined /\ OutOfRange(cfg.steps, 1, 100)
    THEN Some(SogniValidationError("Steps must be between 1 and 100"))
  ELSE IF cfg.guidance # Undefined /\ OutOfRange(cfg.guidance, 0, 30)
    THEN Some(SogniValidationError("Guidance must be between 0 and 30"))
  ELSE IF cfg.width # Undefined /\ OutOfRange(cfg.width, 256, 2048)
    THEN Some(SogniValidationError("Width must be between 256 and 2048"))
  ELSE IF cfg.height # Undefined /\ OutOfRange(cfg.height, 256, 2048)
    THEN Some(SogniValidationError("Height must be between 256 and 2048"))
  ELSE IF Truthy(cfg.tokenType) /\ NotOneOf(cfg.tokenType, {"sogni", "spark"})
    THEN Some(SogniValidationError("Token type must be either \"sogni\" or \"spark\""))
  ELSE IF Truthy(cfg.outputFormat) /\ NotOneOf(cfg.outputFormat, {"png", "jpg"})
    THEN Some(SogniValidationError("Output format must be either \"png\" or \"jpg\""))
  ELSE None

validateClientConfigUsernameOnly(cfg) ==
  IF ~Truthy(cfg.username) \/ cfg.username.t # "string"
    THEN Some(SogniValidationError("Username is required and must be a string"))
  ELSE None

validateClientConfig(cfg) ==
  IF ~Truthy(cfg.username) \/ cfg.username.t # "string"
    THEN Some(SogniValidationError("Username is required and must be a string"))
  ELSE IF ~Truthy(cfg.password) \/ cfg.password.t # "string"
    THEN Some(SogniValidationError("Password is required and must be a string"))
  ELSE IF Truthy(cfg.network) /\ NotOneOf(cfg.network, {"fast", "relaxed"})
    THEN Some(SogniValidationError("Network must be either \"fast\" or \"relaxed\""))
  ELSE IF cfg.timeout # Undefined /\ (cfg.timeout.t # "number" \/ cfg.timeout.v <= 0)
    THEN Some(SogniValidationError("Timeout must be a positive number"))
  ELSE IF cfg.reconnectInterval # Undefined
          /\ (cfg.reconnectInterval.t # "number" \/ cfg.reconnectInterval.v <= 0)
    THEN Some(SogniValidationError("Reconnect interval must be a positive number"))
  ELSE None

\* The client configurations the callers of this model construct with
BaseClientConfig ==
  [username |-> Str("alice"), password |-> Str("secret"), network |-> Undefined,
   timeout |-> Undefined, reconnectInterval |-> Undefined, autoConnect |-> Undefined,
   reconnect |-> Undefined]

\* Valid configurations: autoConnect and reconnect left on or switched off
ValidClientConfigs ==
  {[BaseClientConfig EXCEPT !.autoConnect = a, !.reconnect = r] :
     a \in {Undefined, Bool(FALSE)}, r \in {Undefined, Bool(FALSE)}}

\* Configurations with missing, empty and non-string credentials among them
ClientConfigs ==
  {[BaseClientConfig EXCEPT !.username = u, !.password = w, !.autoConnect = a, !.timeout = t] :
     u \in {Undefined, Str(""), Num(7), Str("alice")},
     w \in {Undefined, Str(""), Bool(TRUE), Str("secret")},
     a \in {Undefined, Bool(FALSE)},
     t \in {Undefined, Num(0), Num(60000)}}

\* The requests the callers of this model submit
BaseProjectConfig ==
  [modelId |-> Str("flux"), positivePrompt |-> Str("a cat"),
   numberOfImages |-> Undefined, steps |-> Undefined, guidance |-> Undefined,
   width |-> Undefined, height |-> Undefined, tokenType |-> Undefined,
   outputFormat |-> Undefined, waitForCompletion |-> Undefined, timeout |-> Undefined,
   onProgress |-> Undefined, onJobCompleted |-> Undefined, onJobFailed |-> Undefined]

\* A callback the caller supplies
Function == [t |-> "function"]

CfgNoWait == [BaseProjectConfig EXCEPT !.waitForCompletion = Bool(FALSE)]
CfgShortTimeout == [BaseProjectConfig EXCEPT !.timeout = Num(1000), !.numberOfImages = Num(3)]
CfgTooManyImages == [BaseProjectConfig EXCEPT !.numberOfImages = Num(11)]
CfgWithCallbacks ==
  [BaseProjectConfig EXCEPT !.numberOfImages = Num(2), !.onProgress = Function,
                            !.onJobCompleted = Function, !.onJobFailed = Function]

ProjectConfigs == {BaseProjectConfig, CfgNoWait, CfgShortTimeout, CfgTooManyImages}

----------------------------------------------------------------------------
\* The wrapper object and the invocations in progress, as one value that the
\* methods below transform. Cur reads it from the variables at the start of
\* a turn (nothing emitted or settled yet); Commit writes it back.

Cur ==
  [client |-> client, config |-> config, connectionState |-> connectionState,
   reconnectTimer |-> reconnectTimer, pendingTimers |-> pendingTimers,
   isReconnecting |-> isReconnecting,
   errorListener |-> errorListener, calls |-> calls,
   emitted |-> <<>>, returned |-> <<>>, attempt |-> "none", retryCall |-> retryCall,
   raised |-> <<>>, invoked |-> <<>>]

\* The invocations in progress form a multiset: the slots are kept in the
\* order of CallKey, so that which slot holds an invocation carries no meaning.
Index(seq, x) == CHOOSE i \in 1..Len(seq) : seq[i] = x

Kinds == <<"connect", "auto", "reconnect", "getAvailableModels", "getBalance",
           "getSizePresets", "createProject", "retryProject", "free">>
Pcs == <<"idle", "createInstance", "login", "waitForModels", "waitFor", "delegate", "create",
         "race">>
Fates == <<"none", "pending", "succeeded", "failed">>
ProjectConfigSeq == <<None, Some(BaseProjectConfig), Some(CfgNoWait), Some(CfgShortTimeout),
                      Some(CfgTooManyImages), Some(CfgWithCallbacks)>>

CallKey(call) ==
  (((Index(Kinds, call.kind) * 8 + Index(Pcs, call.pc)) * 8 + Index(Fates, call.first)) * 8
    + Index(ProjectConfigSeq, call.cfg)) * 2 + (IF call.stale THEN 1 ELSE 0)

RECURSIVE InsertCall(_, _)
InsertCall(sorted, call) ==
  IF sorted = <<>> THEN <<call>>
  ELSE IF CallKey(call) <= CallKey(Head(sorted)) THEN <<call>> \o sorted
  ELSE <<Head(sorted)>> \o InsertCall(Tail(sorted), call)

RECURSIVE SortFrom(_, _)
SortFrom(cs, i) == IF i > MaxCalls THEN <<>> ELSE InsertCall(SortFrom(cs, i + 1), cs[i])

SortCalls(cs) == SortFrom(cs, 1)

\* The constructor returned an object
Constructed == \A i \in 1..Len(returned) : returned[i].kind # "constructor"

\* Methods and callbacks run on a constructed object only
Commit(st) ==
  /\ Constructed
  /\ st.connectionState.reconnectAttempts <= MaxReconnectAttempts
  /\ client' = st.client
  /\ config' = st.config
  /\ connectionState' = st.connectionState
  /\ reconnectTimer' = st.reconnectTimer
  /\ pendingTimers' = st.pendingTimers
  /\ isReconnecting' = st.isReconnecting
  /\ errorListener' = st.errorListener
  /\ calls' = SortCalls(st.calls)
  /\ emitted' = st.emitted
  /\ returned' = st.returned
  /\ attempt' = st.attempt
  /\ retryCall' = st.retryCall
  /\ raised' = st.raised
  /\ invoked' = st.invoked
  /\ UNCHANGED probe

\* An invocation: which method (kind), where it is suspended (pc), its
\* request (cfg) and the armed duration of its timeout race (timeout).
\* Two fields record history for the properties: first is, for an invocation
\* that waits on a connection attempt in flight, the fate of that attempt;
\* stale says that disconnect() ran while the invocation's handshake was in flight.
\* events lists the wrapper events createProject emitted so far, in order.
FreeCall ==
  [kind |-> "free", pc |-> "idle", cfg |-> None, timeout |-> None, first |-> "none",
   stale |-> FALSE, events |-> <<>>]

NewCall(kind, cfg) == [FreeCall EXCEPT !.kind = kind, !.cfg = cfg]

HandshakePcs == {"createInstance", "login", "waitForModels"}

InHandshake(call) == call.pc \in HandshakePcs

Void == [void |-> TRUE]
Resolved(value) == [ok |-> TRUE, value |-> value]
Rejected(error) == [ok |-> FALSE, error |-> error]

----------------------------------------------------------------------------
\* retry(fn, options): the loop, from the settling of one fn() to the next wait

\* No retry() in progress. fn is "operation" for a caller's function and
\* "createProject" for the closure of createProjectWithRetry; calls counts
\* the invocations of fn, onRetry and sleeps record the callback's arguments
\* and the waits, outcomes what each fn() settled with, running the number
\* of SDK projects its createProject invocations created that have not finished.
RetryIdle ==
  [pc |-> "idle", fn |-> "none", cfg |-> None, options |-> None, attempt |-> 0, delay |-> 0,
   calls |-> 0, outcomes |-> <<>>, onRetry |-> <<>>, sleeps |-> <<>>, result |-> None,
   running |-> 0]

Min(a, b) == IF a <= b THEN a ELSE b

\* throw lastError! when the loop body never ran
ThrownUndefined == NonError("undefined")

\* lastError = error instanceof Error ? error : new Error(String(error))
NormalizeError(error) == IF InstanceOfError(error) THEN error ELSE JsError(error.message)

retryFnSettledSkipsOnRetry(st, result) ==
  LET rc == [st.retryCall EXCEPT !.outcomes = Append(@, result)]
      lastError == NormalizeError(result.error)
  IN IF result.ok
       THEN [st EXCEPT !.retryCall = [rc EXCEPT !.pc = "done", !.result = Some(result)]]
     ELSE IF rc.attempt = Get(rc.options).maxAttempts
       THEN [st EXCEPT !.retryCall =
               [rc EXCEPT !.pc = "done", !.result = Some(Rejected(lastError))]]
     ELSE [st EXCEPT !.retryCall =
             [rc EXCEPT !.pc = "sleep", !.sleeps = Append(@, rc.delay)]]

retryFnSettledOneMore(st, result) ==
  LET rc == [st.retryCall EXCEPT !.outcomes = Append(@, result)]
      lastError == NormalizeError(result.error)
  IN IF result.ok
       THEN [st EXCEPT !.retryCall = [rc EXCEPT !.pc = "done", !.result = Some(result)]]
     ELSE IF rc.attempt = Get(rc.options).maxAttempts + 1
       THEN [st EXCEPT !.retryCall =
               [rc EXCEPT !.pc = "done", !.result = Some(Rejected(lastError))]]
     ELSE [st EXCEPT !.retryCall =
             [rc EXCEPT !.pc = "sleep",
                        !.onRetry = Append(@, [attempt |-> rc.attempt, error |-> lastError]),
                        !.sleeps = Append(@, rc.delay)]]

\* retry(): await fn() settled with result, up to the next await sleep(delay)
retryFnSettled(st, result) ==
  LET rc == [st.retryCall EXCEPT !.outcomes = Append(@, result)]
      lastError == NormalizeError(result.error)
  IN IF result.ok
       THEN [st EXCEPT !.retryCall = [rc EXCEPT !.pc = "done", !.result = Some(result)]]
     ELSE IF rc.attempt = Get(rc.options).maxAttempts
       THEN [st EXCEPT !.retryCall =
               [rc EXCEPT !.pc = "done", !.result = Some(Rejected(lastError))]]
     ELSE [st EXCEPT !.retryCall =
             [rc EXCEPT !.pc = "sleep",
                        !.onRetry = Append(@, [attempt |-> rc.attempt, error |-> lastError]),
                        !.sleeps = Append(@, rc.delay)]]

----------------------------------------------------------------------------

\* The invocation in slot c settles: its promise resolves or rejects. The
\* promise of the createProject that retry() invoked settles into retry().
Return(st, c, result) ==
  LET s1 == [st EXCEPT
               !.returned = Append(@, [kind |-> st.calls[c].kind, pc |-> st.calls[c].pc,
                                       cfg |-> st.calls[c].cfg, first |-> st.calls[c].first,
                                       timeout |-> st.calls[c].timeout,
                                       events |-> st.calls[c].events, result |-> result]),
               !.calls[c] = FreeCall]
  IN IF st.calls[c].kind = "retryProject" THEN retryFnSettled(s1, result) ELSE s1

Suspend(st, c, pc) == [st EXCEPT !.calls[c].pc = pc]

\* The handshake of slot c is over: the invocations waiting on it learn its fate
AttemptOver(st, c, fate) ==
  [st EXCEPT !.attempt = fate,
             !.calls = [d \in DOMAIN @ |->
               IF @[d].pc = "waitFor" /\ @[d].first = "pending"
                 THEN [@[d] EXCEPT !.first = fate]
               ELSE IF d = c THEN [@[d] EXCEPT !.stale = FALSE]
               ELSE @[d]]]

----------------------------------------------------------------------------
\* Private helpers of SogniClientWrapper

updateConnectionState(st, updates) ==
  [st EXCEPT !.connectionState =
     [k \in DOMAIN @ |-> IF k \in DOMAIN updates THEN updates[k] ELSE @[k]]]

\* EventEmitter.emit with at least the listeners the event needs
emit(st, event, payload) ==
  [st EXCEPT !.emitted = Append(@, [event |-> event, payload |-> payload])]

\* this.emit(...) in createProject: the event is one of invocation c
emitOf(st, c, event, payload) ==
  [emit(st, event, payload) EXCEPT !.calls[c].events = Append(@, event)]

\* EventEmitter.emit('error', ...) throws when no 'error' listener is registered
EmitErrorThrows(st) == ~st.errorListener

isConnectedByStateOnly(st) == st.connectionState.isConnected

isConnected(st) == st.connectionState.isConnected /\ st.client # None

scheduleReconnect(st) ==
  IF st.reconnectTimer # None THEN st
  ELSE
    LET s1 == [st EXCEPT !.isReconnecting = TRUE]
        s2 == updateConnectionState(s1,
                [status |-> "reconnecting",
                 reconnectAttempts |-> s1.connectionState.reconnectAttempts + 1])
        s3 == emit(s2, "reconnecting", Some(s2.connectionState.reconnectAttempts))
    IN [s3 EXCEPT !.reconnectTimer = Some([delay |-> s3.config.reconnectInterval]),
                  !.pendingTimers = @ + 1]

clearReconnectTimerDropsHandle(st) == [st EXCEPT !.reconnectTimer = None]

\* disconnect(): if (this.reconnectTimer) { clearTimeout(...); this.reconnectTimer = null }
clearReconnectTimer(st) ==
  IF st.reconnectTimer # None
    THEN [st EXCEPT !.reconnectTimer = None, !.pendingTimers = @ - 1]
    ELSE st

createTimeoutPromise(st, c, timeoutMs) ==
  [st EXCEPT !.calls[c].timeout = Some(timeoutMs)]

----------------------------------------------------------------------------
\* createProject

createProjectFailedRaisesCause(st, c, error) ==
  LET projectError ==
        IF error.name = "SogniTimeoutError" THEN error
        ELSE SogniProjectError("Project creation failed", error)
      s1 == emitOf(st, c, "projectFailed", Some(ToErrorData(projectError)))
  IN Return(s1, c, Rejected(error))

createProjectFailedAlwaysWraps(st, c, error) ==
  LET projectError == SogniProjectError("Project creation failed", error)
      s1 == emitOf(st, c, "projectFailed", Some(ToErrorData(projectError)))
  IN Return(s1, c, Rejected(projectError))

\* catch (error) of createProject
createProjectFailed(st, c, error) ==
  LET projectError ==
        IF error.name = "SogniTimeoutError" THEN error
        ELSE SogniProjectError("Project creation failed", error)
      s1 == emitOf(st, c, "projectFailed", Some(ToErrorData(projectError)))
  IN Return(s1, c, Rejected(projectError))

\* createProject after ensureConnected() resolved
createProjectConnected(st, c) ==
  LET cfg == Get(st.calls[c].cfg)
      invalid == validateProjectConfig(cfg)
  IN IF IsSome(invalid) THEN Return(st, c, Rejected(Get(invalid)))
     ELSE IF st.client = None THEN createProjectFailed(st, c, CauseNullDeref)
     ELSE Suspend(st, c, "create")

createProjectCreatedAlwaysWaits(st, c) ==
  LET cfg == Get(st.calls[c].cfg)
      timeout == IF cfg.timeout = Undefined THEN st.config.timeout ELSE cfg.timeout.v
      s1 == emitOf(st, c, "projectCreated", Some("project"))
  IN Suspend(createTimeoutPromise(s1, c, timeout), c, "race")

\* createProject after projects.create() resolved
createProjectCreated(st, c) ==
  LET cfg == Get(st.calls[c].cfg)
      waitForCompletion ==
        IF cfg.waitForCompletion = Undefined THEN TRUE ELSE Truthy(cfg.waitForCompletion)
      timeout == IF cfg.timeout = Undefined THEN st.config.timeout ELSE cfg.timeout.v
      s1 == emitOf(st, c, "projectCreated", Some("project"))
  IN IF ~waitForCompletion
       THEN Return(s1, c, Resolved([project |-> "project", completed |-> FALSE, imageUrls |-> None]))
       ELSE Suspend(createTimeoutPromise(s1, c, timeout), c, "race")

\* projects.create() of invocation c resolved: the SDK runs a new project
projectsCreateResolved(st, c) ==
  IF st.calls[c].kind = "retryProject" THEN [st EXCEPT !.retryCall.running = @ + 1] ELSE st

\* project.waitForCompletion() of invocation c settled: its project finished
waitForCompletionSettled(st, c) ==
  IF st.calls[c].kind = "retryProject" THEN [st EXCEPT !.retryCall.running = @ - 1] ELSE st

waitForCompletionUnobservedEmits(st) ==
  emit([st EXCEPT !.retryCall.running = @ - 1], "projectCompleted",
       Some([project |-> "project", completed |-> TRUE, imageUrls |-> Some(<<"url">>)]))

\* Promise.race([project.waitForCompletion(), timeout]) after the timeout
\* won: the project finishes, and the settling of the losing promise resumes
\* nothing in createProject
waitForCompletionUnobserved(st) == [st EXCEPT !.retryCall.running = @ - 1]

\* The SDK raises a notification on the project of invocation c
raise(st, c, event, payload) ==
  [st EXCEPT !.raised = Append(@, [event |-> event, payload |-> payload,
                                   cfg |-> Get(st.calls[c].cfg)])]

\* The caller's callback is called
invoke(st, callback, payload) ==
  [st EXCEPT !.invoked = Append(@, [callback |-> callback, payload |-> payload])]

\* createProject: progressData of the listener on the project's 'progress'
ProgressData(cfg, progress) ==
  [projectId |-> "project", percentage |-> progress, completedJobs |-> 0,
   totalJobs |-> IF Truthy(cfg.numberOfImages) THEN cfg.numberOfImages.v ELSE 1]

\* createProject: the listeners it registered on the project, when the SDK
\* raises event on it. A listener is registered only for a supplied callback.
projectListeners(st, c, event, payload) ==
  LET cfg == Get(st.calls[c].cfg)
  IN IF event = "progress" /\ Truthy(cfg.onProgress)
       THEN emit(invoke(st, "onProgress", ProgressData(cfg, payload)),
                 "projectProgress", Some(ProgressData(cfg, payload)))
     ELSE IF event = "jobCompleted" /\ Truthy(cfg.onJobCompleted)
       THEN invoke(st, "onJobCompleted", payload)
     ELSE IF event = "jobFailed" /\ Truthy(cfg.onJobFailed)
       THEN invoke(st, "onJobFailed", payload)
     ELSE st

createProjectCompletedSilent(st, c, imageUrls) ==
  LET result == [project |-> "project", completed |-> TRUE, imageUrls |-> Some(imageUrls)]
      s1 == [st EXCEPT !.calls[c].timeout = None]
  IN Return(s1, c, Resolved(result))

\* createProject after project.waitForCompletion() won the race
createProjectCompleted(st, c, imageUrls) ==
  LET result == [project |-> "project", completed |-> TRUE, imageUrls |-> Some(imageUrls)]
      s1 == [st EXCEPT !.calls[c].timeout = None]
      s2 == emitOf(s1, c, "projectCompleted", Some(result))
  IN Return(s2, c, Resolved(result))

\* createProject after the timer of createTimeoutPromise won the race
createProjectTimedOut(st, c) ==
  LET timeoutMs == Get(st.calls[c].timeout)
  IN createProjectFailed(st, c,
       SogniTimeoutError("Operation timed out after " \o ToString(timeoutMs) \o "ms",
                         timeoutMs))

----------------------------------------------------------------------------
\* connect() and what each caller does when it settles

\* The reconnect timer's callback, after its await this.connect()
reconnectSettled(st, c, result) ==
  IF result.ok
    THEN Return(emit([st EXCEPT !.isReconnecting = FALSE], "reconnected", None),
                c, Resolved(Void))
    ELSE IF st.config.reconnect
      THEN Return(scheduleReconnect(st), c, Resolved(Void))
      ELSE Return([st EXCEPT !.isReconnecting = FALSE], c, Resolved(Void))

\* The constructor's this.connect().catch(...)
autoConnectSettled(st, c, result) ==
  IF result.ok THEN Return(st, c, result)
  ELSE IF EmitErrorThrows(st) THEN Return(st, c, Rejected(UnhandledError))
  ELSE Return(emit(st, "error",
                   Some(ToErrorData(FromError(result.error, "AUTO_CONNECT_FAILED")))),
              c, Resolved(Void))

\* getBalance / getSizePresets: what the SDK call rejected with, as the
\* operation raises it
operationError(kind, error) ==
  IF kind = "getSizePresets" THEN FromError(error, "GET_SIZE_PRESETS_FAILED") ELSE error

\* The operations after their await this.ensureConnected(): each reads
\* this.client!; getAvailableModels reads a property, the others await an SDK call
operationConnected(st, c) ==
  LET kind == st.calls[c].kind
  IN IF kind \in {"createProject", "retryProject"} THEN createProjectConnected(st, c)
     ELSE IF st.client = None
       THEN Return(st, c, Rejected(operationError(kind, CauseNullDeref)))
     ELSE IF kind = "getAvailableModels" THEN Return(st, c, Resolved(Void))
     ELSE Suspend(st, c, "delegate")

\* getBalance / getSizePresets after their SDK call settled
operationSettled(st, c, result) ==
  IF result.ok THEN Return(st, c, result)
  ELSE Return(st, c, Rejected(operationError(st.calls[c].kind, result.error)))

\* connect() settled with result: control returns to its caller
connectSettled(st, c, result) ==
  LET kind == st.calls[c].kind
  IN IF kind = "connect" THEN Return(st, c, result)
     ELSE IF kind = "auto" THEN autoConnectSettled(st, c, result)
     ELSE IF kind = "reconnect" THEN reconnectSettled(st, c, result)
     ELSE IF result.ok THEN operationConnected(st, c)
     ELSE Return(st, c, result)

ConnectedUpdatesKeepAttempts ==
  [status |-> "connected", isConnected |-> TRUE, isConnecting |-> FALSE,
   connectedAt |-> Some("date")]

\* connect(): the state update of the completed try block
ConnectedUpdates ==
  [status |-> "connected", isConnected |-> TRUE, isConnecting |-> FALSE,
   reconnectAttempts |-> 0, connectedAt |-> Some("date")]

\* connect(): the try block completed
connectSucceeded(st, c) ==
  LET s1 == updateConnectionState(st, ConnectedUpdates)
      s2 == emit(s1, "connected", None)
  IN connectSettled(AttemptOver(s2, c, "succeeded"), c, Resolved(Void))

\* connect(): the classification of what the try block threw
ClassifyConnectError(error) ==
  IF InstanceOfError(error) /\ Includes(error.message, AuthToken)
    THEN SogniAuthenticationError("Authentication failed", error)
    ELSE SogniConnectionError("Failed to connect to Sogni Supernet", error)

FailedUpdatesKeepConnecting(sogniError) ==
  [status |-> "failed", isConnected |-> FALSE,
   lastError |-> Some(ToErrorData(sogniError))]

\* connect(): the state update of the catch block
FailedUpdates(sogniError) ==
  [status |-> "failed", isConnected |-> FALSE, isConnecting |-> FALSE,
   lastError |-> Some(ToErrorData(sogniError))]

\* connect(): catch (error)
connectFailed(st, c, error) ==
  LET sogniError == ClassifyConnectError(error)
      s1 == updateConnectionState(st, FailedUpdates(sogniError))
      s2 == emit(s1, "error", Some(ToErrorData(sogniError)))
      s3 == IF s2.config.reconnect /\ ~s2.isReconnecting THEN scheduleReconnect(s2) ELSE s2
  IN IF EmitErrorThrows(s1)
       THEN connectSettled(AttemptOver(s1, c, "failed"), c, Rejected(UnhandledError))
       ELSE connectSettled(AttemptOver(s3, c, "failed"), c, Rejected(sogniError))

connectWithoutConnectedCheck(st, c) ==
  IF st.connectionState.isConnecting
    THEN [st EXCEPT !.calls[c].pc = "waitFor",
                    !.calls[c].first =
                       IF \E d \in DOMAIN st.calls : InHandshake(st.calls[d])
                         THEN "pending" ELSE "none"]
  ELSE LET s1 == updateConnectionState(st, [status |-> "connecting", isConnecting |-> TRUE])
       IN Suspend(s1, c, "createInstance")

\* connect(): from its entry to its first await
connect(st, c) ==
  IF st.connectionState.isConnected THEN connectSettled(st, c, Resolved(Void))
  ELSE IF st.connectionState.isConnecting
    THEN [st EXCEPT !.calls[c].pc = "waitFor",
                    !.calls[c].first =
                       IF \E d \in DOMAIN st.calls : InHandshake(st.calls[d])
                         THEN "pending" ELSE "none"]
  ELSE LET s1 == updateConnectionState(st, [status |-> "connecting", isConnecting |-> TRUE])
       IN Suspend(s1, c, "createInstance")

\* connect(): SogniClient.createInstance() resolved; login is called
connectInstanceCreated(st, c) ==
  Suspend([st EXCEPT !.client = Some("sdk")], c, "login")

\* connect(): account.login() resolved; this.client.projects.waitForModels() is called
connectLoggedIn(st, c) ==
  IF st.client = None THEN connectFailed(st, c, CauseNullDeref)
  ELSE Suspend(st, c, "waitForModels")

ensureConnected(st, c) ==
  IF ~isConnected(st) THEN connect(st, c) ELSE operationConnected(st, c)

\* The settled promise of a method that never suspends
Settle(st, kind, result) ==
  [st EXCEPT !.returned = Append(@, [kind |-> kind, pc |-> "idle", cfg |-> None,
                                     first |-> "none", timeout |-> None, events |-> <<>>,
                                     result |-> result])]

disconnectKeepsTimer(st) ==
  LET s1 == [st EXCEPT !.isReconnecting = FALSE, !.client = None]
      s2 == updateConnectionState(s1,
              [status |-> "disconnected", isConnected |-> FALSE, isConnecting |-> FALSE])
      s3 == emit(s2, "disconnected", None)
      s4 == [s3 EXCEPT !.calls = [d \in DOMAIN @ |->
               IF InHandshake(@[d]) THEN [@[d] EXCEPT !.stale = TRUE] ELSE @[d]]]
  IN Settle(s4, "disconnect", Resolved(Void))

disconnectRequiresClient(st) ==
  IF st.client = None
    THEN Settle(st, "disconnect", Rejected(JsError("Not connected")))
    ELSE disconnectKeepsTimer(clearReconnectTimer(st))

disconnect(st) ==
  LET s1 == [clearReconnectTimer(st) EXCEPT !.isReconnecting = FALSE, !.client = None]
      s2 == updateConnectionState(s1,
              [status |-> "disconnected", isConnected |-> FALSE, isConnecting |-> FALSE])
      s3 == emit(s2, "disconnected", None)
      s4 == [s3 EXCEPT !.calls = [d \in DOMAIN @ |->
               IF InHandshake(@[d]) THEN [@[d] EXCEPT !.stale = TRUE] ELSE @[d]]]
  IN Settle(s4, "disconnect", Resolved(Void))

\* getRecommendedSettings(modelId); guidance is spelled as the literal
getRecommendedSettings(modelId) ==
  IF Includes(modelId, <<"f", "l", "u", "x">>) THEN [steps |-> 4, guidance |-> "3.5"]
  ELSE IF \/ Includes(modelId, <<"l", "i", "g", "h", "t", "n", "i", "n", "g">>)
          \/ Includes(modelId, <<"t", "u", "r", "b", "o">>)
          \/ Includes(modelId, <<"l", "c", "m">>)
    THEN [steps |-> 4, guidance |-> "1.0"]
  ELSE [steps |-> 20, guidance |-> "7.5"]

\* models.filter((m) => m.workerCount >= minWorkers)
RECURSIVE FilterMinWorkers(_, _)
FilterMinWorkers(models, minWorkers) ==
  IF models = <<>> THEN <<>>
  ELSE IF Head(models).workerCount >= minWorkers
    THEN <<Head(models)>> \o FilterMinWorkers(Tail(models), minWorkers)
  ELSE FilterMinWorkers(Tail(models), minWorkers)

\* Array.prototype.sort is stable: model goes after the models that have
\* at least its worker count
RECURSIVE InsertByWorkers(_, _)
InsertByWorkers(sorted, model) ==
  IF sorted = <<>> THEN <<model>>
  ELSE IF Head(sorted).workerCount >= model.workerCount
    THEN <<Head(sorted)>> \o InsertByWorkers(Tail(sorted), model)
  ELSE <<model>> \o sorted

\* [...models].sort((a, b) => b.workerCount - a.workerCount), the first n models
RECURSIVE SortByWorkers(_, _)
SortByWorkers(models, n) ==
  IF n = 0 THEN <<>> ELSE InsertByWorkers(SortByWorkers(models, n - 1), models[n])

\* getAvailableModels(options) after ensureConnected(), on the SDK's
\* availableModels; minWorkers is None when the option is absent
getAvailableModels(models, minWorkers, sortByWorkers) ==
  LET filtered == IF minWorkers # None THEN FilterMinWorkers(models, Get(minWorkers)) ELSE models
      sorted == IF sortByWorkers THEN SortByWorkers(filtered, Len(filtered)) ELSE filtered
  IN [i \in 1..Len(sorted) |->
        [id |-> sorted[i].id, workerCount |-> sorted[i].workerCount,
         isAvailable |-> sorted[i].workerCount > 0,
         recommendedSettings |-> getRecommendedSettings(sorted[i].id)]]

getMostPopularModelUnsorted(st, availableModels) ==
  IF st.client = None THEN Rejected(CauseNullDeref)
  ELSE LET models == getAvailableModels(availableModels, None, FALSE)
       IN IF Len(models) = 0
            THEN Rejected(SogniError("SogniError", "No models available", "NO_MODELS_AVAILABLE",
                                     None, None, None))
            ELSE Resolved(models[1])

\* getMostPopularModel() after ensureConnected(), on the SDK's availableModels
getMostPopularModel(st, availableModels) ==
  IF st.client = None THEN Rejected(CauseNullDeref)
  ELSE LET models == getAvailableModels(availableModels, None, TRUE)
       IN IF Len(models) = 0
            THEN Rejected(SogniError("SogniError", "No models available", "NO_MODELS_AVAILABLE",
                                     None, None, None))
            ELSE Resolved(models[1])

\* retry(): fn() is invoked. The closure of createProjectWithRetry calls
\* this.createProject(config) as a new invocation in slot c.
retryInvokeFn(st, c) ==
  LET s1 == [st EXCEPT !.retryCall.pc = "fn", !.retryCall.calls = @ + 1]
  IN IF s1.retryCall.fn = "createProject"
       THEN ensureConnected([s1 EXCEPT !.calls[c] = NewCall("retryProject", s1.retryCall.cfg)], c)
       ELSE s1

\* retry(fn, options), from its entry to its first await
retry(st, c, fn, cfg, options) ==
  LET s1 == [st EXCEPT !.retryCall =
               [RetryIdle EXCEPT !.fn = fn, !.cfg = cfg, !.options = Some(options),
                                 !.attempt = 1, !.delay = options.initialDelay]]
  IN IF options.maxAttempts < 1
       THEN [s1 EXCEPT !.retryCall.pc = "done",
                       !.retryCall.result = Some(Rejected(ThrownUndefined))]
       ELSE retryInvokeFn(s1, c)

\* retry(): sleep(delay) elapsed; the delay grows and the next attempt starts
retrySleepElapsed(st, c) ==
  LET options == Get(st.retryCall.options)
      s1 == [st EXCEPT !.retryCall.delay = Min(@ * options.backoffFactor, options.maxDelay),
                       !.retryCall.attempt = @ + 1]
  IN retryInvokeFn(s1, c)

\* createProjectWithRetry(config, {maxAttempts, retryDelay})
createProjectWithRetry(st, c, cfg, maxAttempts, retryDelay) ==
  retry(st, c, "createProject", Some(cfg),
        [maxAttempts |-> maxAttempts, initialDelay |-> retryDelay,
         maxDelay |-> DefaultMaxDelay, backoffFactor |-> DefaultBackoffFactor])

ConstructorAlwaysConnects(cfg) ==
  LET invalid == validateClientConfig(cfg)
      st == [client |-> None,
             config |-> [username |-> cfg.username, password |-> cfg.password,
                         reconnect |-> cfg.reconnect # Bool(FALSE),
                         reconnectInterval |->
                           IF Truthy(cfg.reconnectInterval) THEN cfg.reconnectInterval.v
                           ELSE DefaultReconnectInterval,
                         timeout |->
                           IF Truthy(cfg.timeout) THEN cfg.timeout.v ELSE DefaultTimeout],
             connectionState |-> [status |-> "disconnected", isConnected |-> FALSE,
                                  isConnecting |-> FALSE, reconnectAttempts |-> 0,
                                  lastError |-> None, connectedAt |-> None],
             reconnectTimer |-> None, pendingTimers |-> 0, isReconnecting |-> FALSE,
             errorListener |-> FALSE,
             calls |-> [c \in Slots |-> FreeCall], emitted |-> <<>>, returned |-> <<>>,
             attempt |-> "none", retryCall |-> RetryIdle, raised |-> <<>>, invoked |-> <<>>]
  IN IF IsSome(invalid)
       THEN [st EXCEPT !.returned =
               <<[kind |-> "constructor", pc |-> "idle", cfg |-> Some(cfg), first |-> "none",
                  timeout |-> None, events |-> <<>>, result |-> Rejected(Get(invalid))]>>]
       ELSE connect([st EXCEPT !.calls[1] = NewCall("auto", None)], 1)

\* new SogniClientWrapper(cfg). When validateClientConfig throws, no object
\* exists: the fields keep their initial values and the throw is recorded.
Constructor(cfg) ==
  LET invalid == validateClientConfig(cfg)
      st == [client |-> None,
             config |-> [username |-> cfg.username, password |-> cfg.password,
                         reconnect |-> cfg.reconnect # Bool(FALSE),
                         reconnectInterval |->
                           IF Truthy(cfg.reconnectInterval) THEN cfg.reconnectInterval.v
                           ELSE DefaultReconnectInterval,
                         timeout |->
                           IF Truthy(cfg.timeout) THEN cfg.timeout.v ELSE DefaultTimeout],
             connectionState |-> [status |-> "disconnected", isConnected |-> FALSE,
                                  isConnecting |-> FALSE, reconnectAttempts |-> 0,
                                  lastError |-> None, connectedAt |-> None],
             reconnectTimer |-> None, pendingTimers |-> 0, isReconnecting |-> FALSE,
             errorListener |-> FALSE,
             calls |-> [c \in Slots |-> FreeCall], emitted |-> <<>>, returned |-> <<>>,
             attempt |-> "none", retryCall |-> RetryIdle, raised |-> <<>>, invoked |-> <<>>]
  IN IF IsSome(invalid)
       THEN [st EXCEPT !.returned =
               <<[kind |-> "constructor", pc |-> "idle", cfg |-> Some(cfg), first |-> "none",
                  timeout |-> None, events |-> <<>>, result |-> Rejected(Get(invalid))]>>]
     ELSE IF cfg.autoConnect # Bool(FALSE)
       THEN connect([st EXCEPT !.calls[1] = NewCall("auto", None)], 1)
       ELSE st

----------------------------------------------------------------------------
\* The state machine

InitWith(cfg) ==
    LET st == Constructor(cfg)
    IN /\ client = st.client
       /\ config = st.config
       /\ connectionState = st.connectionState
       /\ reconnectTimer = st.reconnectTimer
       /\ pendingTimers = st.pendingTimers
       /\ isReconnecting = st.isReconnecting
       /\ errorListener = st.errorListener
       /\ calls = st.calls
       /\ emitted = st.emitted
       /\ returned = st.returned
       /\ attempt = st.attempt
       /\ retryCall = st.retryCall
       /\ raised = st.raised
       /\ invoked = st.invoked
       /\ probe = NoProbe

\* A wrapper constructed with a valid configuration
Init == \E cfg \in ValidClientConfigs : InitWith(cfg)

\* A construction attempted with any configuration
InitConstruct == \E cfg \in ClientConfigs : InitWith(cfg)

\* Valid configurations with autoConnect: false
ManualClientConfigs == {cfg \in ValidClientConfigs : cfg.autoConnect = Bool(FALSE)}

\* A wrapper constructed with autoConnect: false
InitManual == \E cfg \in ManualClientConfigs : InitWith(cfg)

FreeSlots == {c \in Slots : calls[c].kind = "free"}

\* A new invocation takes a free slot
NewSlot == CHOOSE c \in FreeSlots : \A d \in FreeSlots : c <= d

Start(kind, cfg) == [Cur EXCEPT !.calls[NewSlot] = NewCall(kind, cfg)]

\* client.on('error', listener)
OnError ==
  /\ ~errorListener
  /\ Commit([Cur EXCEPT !.errorListener = TRUE])

\* client.connect()
Connect ==
  /\ FreeSlots # {}
  /\ Commit(connect(Start("connect", None), NewSlot))

\* client.disconnect()
Disconnect ==
  /\ TRUE
  /\ Commit(disconnect(Cur))

GetAvailableModels ==
  /\ FreeSlots # {}
  /\ Commit(ensureConnected(Start("getAvailableModels", None), NewSlot))

GetBalance ==
  /\ FreeSlots # {}
  /\ Commit(ensureConnected(Start("getBalance", None), NewSlot))

GetSizePresets ==
  /\ FreeSlots # {}
  /\ Commit(ensureConnected(Start("getSizePresets", None), NewSlot))

CreateProject ==
  /\ FreeSlots # {}
  /\ \E cfg \in ProjectConfigs :
       Commit(ensureConnected(Start("createProject", Some(cfg)), NewSlot))

\* SogniClient.createInstance() settles
CreateInstanceSettles ==
  \E c \in Slots :
    /\ calls[c].pc = "createInstance"
    /\ \/ Commit(connectInstanceCreated(Cur, c))
       \/ \E cause \in SdkCauses : Commit(connectFailed(Cur, c, cause))

\* account.login() settles
LoginSettles ==
  \E c \in Slots :
    /\ calls[c].pc = "login"
    /\ \/ Commit(connectLoggedIn(Cur, c))
       \/ \E cause \in SdkCauses : Commit(connectFailed(Cur, c, cause))

\* projects.waitForModels() settles
WaitForModelsSettles ==
  \E c \in Slots :
    /\ calls[c].pc = "waitForModels"
    /\ \/ Commit(connectSucceeded(Cur, c))
       \/ \E cause \in SdkCauses : Commit(connectFailed(Cur, c, cause))

\* waitFor polls and finds the connection state connected
WaitForSucceeds ==
  \E c \in Slots :
    /\ calls[c].pc = "waitFor"
    /\ connectionState.isConnected
    /\ Commit(connectSettled(Cur, c, Resolved(Void)))

\* waitFor polls, finds the state not connected and its timeout elapsed
WaitForTimesOut ==
  \E c \in Slots :
    /\ calls[c].pc = "waitFor"
    /\ ~connectionState.isConnected
    /\ Commit(connectSettled(Cur, c, Rejected(JsError("Connection timeout"))))

\* The timer armed by scheduleReconnect fires
ReconnectTimerFires ==
  /\ pendingTimers > 0
  /\ FreeSlots # {}
  /\ Commit(connect([Start("reconnect", None) EXCEPT !.reconnectTimer = None,
                                                     !.pendingTimers = @ - 1], NewSlot))

\* account.refreshBalance() or projects.getSizePresets() settles
OperationSettles ==
  \E c \in Slots :
    /\ calls[c].pc = "delegate"
    /\ \/ Commit(operationSettled(Cur, c, Resolved(Void)))
       \/ \E cause \in SdkCauses : Commit(operationSettled(Cur, c, Rejected(cause)))

\* projects.create() resolves with the project
ProjectsCreateResolves ==
  \E c \in Slots :
    /\ calls[c].pc = "create"
    /\ Commit(createProjectCreated(projectsCreateResolved(Cur, c), c))

\* projects.create() rejects
ProjectsCreateRejects ==
  \E c \in Slots :
    /\ calls[c].pc = "create"
    /\ \E cause \in SdkCauses : Commit(createProjectFailed(Cur, c, cause))

\* projects.create() settles
ProjectsCreateSettles ==
  \/ ProjectsCreateResolves
  \/ ProjectsCreateRejects

\* project.waitForCompletion() resolves with the image URLs before the timeout
CompletionResolves ==
  \E c \in Slots :
    /\ calls[c].pc = "race"
    /\ Commit(createProjectCompleted(waitForCompletionSettled(Cur, c), c, <<"url">>))

\* project.waitForCompletion() rejects before the timeout
CompletionRejects ==
  \E c \in Slots :
    /\ calls[c].pc = "race"
    /\ \E cause \in SdkCauses :
         Commit(createProjectFailed(waitForCompletionSettled(Cur, c), c, cause))

\* project.waitForCompletion() settles before the timeout
CompletionSettles ==
  \/ CompletionResolves
  \/ CompletionRejects

\* The timer of createTimeoutPromise fires before the completion
TimeoutFires ==
  \E c \in Slots :
    /\ calls[c].pc = "race"
    /\ Commit(createProjectTimedOut(Cur, c))

\* The SDK projects of createProjectWithRetry that run with no createProject
\* awaiting them: their timeout won the race
Abandoned ==
  retryCall.running
    - Cardinality({c \in Slots : calls[c].kind = "retryProject" /\ calls[c].pc = "race"})

\* A project whose createProject timed out finishes in the background
BackgroundCompletion ==
  /\ Abandoned > 0
  /\ Commit(waitForCompletionUnobserved(Cur))

\* The requests of a caller who observes the project's events
ObservedProjectConfigs == {BaseProjectConfig, CfgWithCallbacks}

\* client.createProject(config) by a caller who observes the project's events
CreateProjectObserved ==
  /\ FreeSlots # {}
  /\ \E cfg \in ObservedProjectConfigs :
       Commit(ensureConnected(Start("createProject", Some(cfg)), NewSlot))

\* The SDK raises 'progress' on a project whose completion is awaited
SdkProgress ==
  \E c \in Slots :
    /\ calls[c].pc = "race"
    /\ \E progress \in {50, 100} :
         Commit(projectListeners(raise(Cur, c, "progress", progress), c, "progress", progress))

\* The SDK raises 'jobCompleted' on a project whose completion is awaited
SdkJobCompleted ==
  \E c \in Slots :
    /\ calls[c].pc = "race"
    /\ Commit(projectListeners(raise(Cur, c, "jobCompleted", "job"), c, "jobCompleted", "job"))

\* The SDK raises 'jobFailed' on a project whose completion is awaited
SdkJobFailed ==
  \E c \in Slots :
    /\ calls[c].pc = "race"
    /\ Commit(projectListeners(raise(Cur, c, "jobFailed", "job"), c, "jobFailed", "job"))

\* The options and functions the callers of retry() pass
RetryOptions ==
  [maxAttempts : 0..MaxRetryAttempts,
   initialDelay : {DefaultInitialDelay, 2 * DefaultMaxDelay},
   maxDelay : {DefaultMaxDelay},
   backoffFactor : {1, DefaultBackoffFactor}]

\* What a caller's function settles with: a value, an Error, a thrown non-Error
OperationResults ==
  {Resolved("value"), Rejected(JsError("boom")), Rejected(NonError("boom"))}

RetryProjectConfigs == {BaseProjectConfig, CfgShortTimeout, CfgTooManyImages}

\* retry(operation, options)
Retry ==
  /\ retryCall.pc = "idle"
  /\ FreeSlots # {}
  /\ \E options \in RetryOptions : Commit(retry(Cur, NewSlot, "operation", None, options))

\* The caller's operation settles
RetryFnSettles ==
  /\ retryCall.pc = "fn"
  /\ retryCall.fn = "operation"
  /\ \E result \in OperationResults : Commit(retryFnSettled(Cur, result))

\* The timer of sleep(delay) fires
RetrySleepElapses ==
  /\ retryCall.pc = "sleep"
  /\ FreeSlots # {}
  /\ Commit(retrySleepElapsed(Cur, NewSlot))

\* client.createProjectWithRetry(config, options)
CreateProjectWithRetry ==
  /\ retryCall.pc = "idle"
  /\ FreeSlots # {}
  /\ \E cfg \in RetryProjectConfigs, maxAttempts \in {1, DefaultMaxAttempts},
        retryDelay \in {DefaultRetryDelay, 2 * DefaultMaxDelay} :
       Commit(createProjectWithRetry(Cur, NewSlot, cfg, maxAttempts, retryDelay))

\* The fields of the wrapper and its invocations: all but probe
wrapperVars == <<client, config, connectionState, reconnectTimer, pendingTimers, isReconnecting,
                 errorListener, calls, emitted, returned, attempt, retryCall, raised, invoked>>

\* The messages and codes errors are constructed with
ErrorMessages == {"", "boom", "Test error"}
ErrorCodes == {"", "TEST_CODE", DefaultErrorCode}

\* new <Kind>(message, ...) for every kind of the taxonomy, and the base
\* error with every code. given is what the caller passed, with the code the
\* kind fixes for itself.
NewErrors ==
  {[given |-> [message |-> m, code |-> c], error |-> SogniError("SogniError", m, c, None, None, None)] :
     m \in ErrorMessages, c \in ErrorCodes}
  \cup UNION {{[given |-> [message |-> e.message, code |-> e.code], error |-> e] :
                e \in {SogniConnectionError(m, JsError("cause")),
                       SogniAuthenticationError(m, JsError("cause")),
                       SogniProjectError(m, JsError("cause")),
                       SogniTimeoutError(m, 1000),
                       SogniBalanceError(m),
                       SogniValidationError(m),
                       SogniConfigurationError(m),
                       SogniModelNotFoundError(m),
                       SogniNetworkError(m, JsError("cause"))}} : m \in ErrorMessages}

\* What SogniError.fromError is given: thrown Errors, thrown values that are
\* no Error (message is String(value)), and errors of the taxonomy
ForeignErrors ==
  {JsError(m) : m \in ErrorMessages} \cup {NonError(m) : m \in ErrorMessages}
  \cup {SogniValidationError("bad"), SogniError("SogniError", "", "", None, None, None)}

\* new <Kind>(...).toErrorData()
NewErrorToErrorData ==
  /\ \E n \in NewErrors :
       probe' = [fn |-> "toErrorData", given |-> n.given, error |-> n.error,
                 data |-> ToErrorData(n.error)]
  /\ UNCHANGED wrapperVars

\* SogniError.fromError(error, code).toErrorData()
FromErrorToErrorData ==
  /\ \E x \in ForeignErrors, code \in ErrorCodes :
       LET e == FromError(x, code)
       IN probe' = [fn |-> "toErrorData",
                    given |-> [message |-> x.message,
                               code |-> IF InstanceOfSogniError(x) THEN x.code ELSE code],
                    error |-> e, data |-> ToErrorData(e)]
  /\ UNCHANGED wrapperVars

\* The requests validateProjectConfig is given: each field absent, within
\* its range, outside it, of another type, or (a number) NaN
ProjectRequests ==
  {[BaseProjectConfig EXCEPT !.modelId = m, !.positivePrompt = p, !.numberOfImages = n,
                             !.steps = st, !.guidance = g, !.width = w, !.height = h,
                             !.tokenType = tt, !.outputFormat = f] :
     m \in {Undefined, Num(7), Str("flux")},
     p \in {Str(""), Str("a cat")},
     n \in {Undefined, Num(0), Num(4), Num(11), NaN},
     st \in {Undefined, Num(0), Num(20), NaN},
     g \in {Undefined, Num(-1), Num(7), Num(31)},
     w \in {Undefined, Num(255), Num(512)},
     h \in {Undefined, Num(512), Num(2049), Str("512")},
     tt \in {Undefined, Str("spark"), Str("bitcoin")},
     f \in {Undefined, Str("png"), Str("gif")}}

\* validateProjectConfig(config)
ValidateProjectConfig ==
  /\ probe = NoProbe
  /\ \E cfg \in ProjectRequests :
       probe' = [fn |-> "validateProjectConfig", cfg |-> cfg,
                 thrown |-> validateProjectConfig(cfg)]
  /\ UNCHANGED wrapperVars

\* The models the SDK may list, and the lists of them
SdkModels ==
  [id : {<<"f", "l", "u", "x", "1">>, <<"s", "d", "x", "l">>, <<"l", "c", "m">>},
   workerCount : {0, 3, 7}]

RECURSIVE ModelLists(_)
ModelLists(n) ==
  IF n = 0 THEN {<<>>}
  ELSE ModelLists(n - 1)
         \cup {Append(l, m) : l \in {k \in ModelLists(n - 1) : Len(k) = n - 1}, m \in SdkModels}

\* client.getMostPopularModel() on a connected wrapper with nothing else in
\* progress: ensureConnected() resolves at once
GetMostPopularModel ==
  /\ probe = NoProbe
  /\ isConnected(Cur)
  /\ \A c \in Slots : calls[c].kind = "free"
  /\ \E models \in ModelLists(MaxModels) :
       probe' = [fn |-> "getMostPopularModel", models |-> models,
                 result |-> getMostPopularModel(Cur, models)]
  /\ UNCHANGED wrapperVars

\* What settles or fires on its own: SDK promises and timers
Handshake ==
  \/ CreateInstanceSettles
  \/ LoginSettles
  \/ WaitForModelsSettles
  \/ WaitForSucceeds
  \/ WaitForTimesOut
  \/ ReconnectTimerFires

\* The connection lifecycle, driven by connect() and disconnect()
Next ==
  \/ OnError
  \/ Connect
  \/ Disconnect
  \/ Handshake

Spec == Init /\ [][Next]_vars

\* The project flow over the connection lifecycle
NextProject ==
  \/ OnError
  \/ Disconnect
  \/ CreateProject
  \/ ProjectsCreateSettles
  \/ CompletionSettles
  \/ TimeoutFires
  \/ Handshake

SpecProject == Init /\ [][NextProject]_vars

\* The project flow while the caller never disconnects
NextProjectFlow ==
  \/ OnError
  \/ CreateProject
  \/ ProjectsCreateSettles
  \/ CompletionSettles
  \/ TimeoutFires
  \/ Handshake

SpecProjectFlow == Init /\ [][NextProjectFlow]_vars

\* Valid configurations with reconnect: false
NoReconnectClientConfigs == {cfg \in ValidClientConfigs : cfg.reconnect = Bool(FALSE)}

\* A wrapper constructed with reconnect: false
InitNoReconnect == \E cfg \in NoReconnectClientConfigs : InitWith(cfg)

\* The project flow of a wrapper that never reconnects and is never
\* disconnected: no reconnect timer is ever armed
NextProjectOnly ==
  \/ OnError
  \/ CreateProject
  \/ ProjectsCreateSettles
  \/ CompletionSettles
  \/ TimeoutFires
  \/ CreateInstanceSettles
  \/ LoginSettles
  \/ WaitForModelsSettles
  \/ WaitForSucceeds
  \/ WaitForTimesOut

SpecProjectOnly == InitNoReconnect /\ [][NextProjectOnly]_vars

\* The connection lifecycle while the caller never disconnects
NextConnectOnly ==
  \/ OnError
  \/ Connect
  \/ Handshake

SpecConnectOnly == Init /\ [][NextConnectOnly]_vars

\* The same where what is pending happens: every SDK promise settles, a
\* poll of waitFor ends, an armed timer fires; the caller owes nothing
SpecConnectOnlyFair ==
  /\ SpecConnectOnly
  /\ WF_vars(CreateInstanceSettles)
  /\ WF_vars(LoginSettles)
  /\ WF_vars(WaitForModelsSettles)
  /\ WF_vars(WaitForSucceeds)
  /\ WF_vars(WaitForTimesOut)
  /\ WF_vars(ReconnectTimerFires)

\* The connection lifecycle driven by connect(), disconnect() and every
\* connection-ensuring operation short of createProject
NextOperations ==
  \/ OnError
  \/ Connect
  \/ Disconnect
  \/ GetAvailableModels
  \/ GetBalance
  \/ GetSizePresets
  \/ OperationSettles
  \/ Handshake

SpecOperations == Init /\ [][NextOperations]_vars

\* The retry helper on a caller's operation
NextRetry ==
  \/ Retry
  \/ RetryFnSettles
  \/ RetrySleepElapses

SpecRetry == Init /\ [][NextRetry]_vars

\* createProjectWithRetry over the project flow
NextProjectRetry ==
  \/ OnError
  \/ CreateProjectWithRetry
  \/ RetrySleepElapses
  \/ ProjectsCreateSettles
  \/ CompletionSettles
  \/ TimeoutFires
  \/ BackgroundCompletion
  \/ Handshake

SpecProjectRetry == Init /\ [][NextProjectRetry]_vars

\* Construction with any configuration, then the connection lifecycle of
\* the object if there is one
NextConstruct ==
  \/ OnError
  \/ Connect
  \/ Handshake

SpecConstruct == InitConstruct /\ [][NextConstruct]_vars

\* A wrapper constructed with autoConnect: false, driven by connect() and
\* getAvailableModels()
NextManual ==
  \/ OnError
  \/ Connect
  \/ GetAvailableModels
  \/ Handshake

SpecManual == InitManual /\ [][NextManual]_vars

\* The error taxonomy read back as ErrorData
NextErrors ==
  \/ NewErrorToErrorData
  \/ FromErrorToErrorData

SpecErrors == Init /\ [][NextErrors]_vars

\* The model queries over the connection lifecycle
NextModels ==
  \/ OnError
  \/ Connect
  \/ GetMostPopularModel
  \/ Handshake

SpecModels == Init /\ [][NextModels]_vars

\* The project validator on its own
SpecValidate == Init /\ [][ValidateProjectConfig]_vars

\* The project flow with the notifications the SDK raises on the project
NextProjectEvents ==
  \/ OnError
  \/ CreateProjectObserved
  \/ ProjectsCreateSettles
  \/ CompletionSettles
  \/ TimeoutFires
  \/ SdkProgress
  \/ SdkJobCompleted
  \/ SdkJobFailed
  \/ Handshake

SpecProjectEvents == Init /\ [][NextProjectEvents]_vars

----------------------------------------------------------------------------
\* Properties

InFlight == {c \in Slots : InHandshake(calls[c])}

Settled == {returned[i] : i \in 1..Len(returned)}

Emitted == {emitted[i] : i \in 1..Len(emitted)}

EmittedCount(event) == Cardinality({i \in 1..Len(emitted) : emitted[i].event = event})

\* connect() calls of the caller that settled in the last turn
SettledConnects == {r \in Settled : r.kind = "connect"}

\* C1: at most one connection handshake is in flight at any time, for every
\* interleaving of connect(), disconnect(), the operations and the timer.
C1_AtMostOneAttemptInFlight == Cardinality(InFlight) <= 1

\* C2: among the connect() invocations made since the last disconnect(), at
\* most one performs the handshake: a second invocation made while the first
\* one's handshake is in flight starts none.
C2_SecondConnectStartsNoHandshake ==
  Cardinality({c \in InFlight : ~calls[c].stale}) <= 1

\* C3: a connect() that waited on an attempt in flight settles as that
\* attempt did: resolved if it succeeded, rejected if it failed.
C3_WaiterSharesOutcome ==
  \A r \in SettledConnects :
    r.pc = "waitFor" =>
      /\ r.first = "succeeded" => r.result.ok
      /\ r.first = "failed" => ~r.result.ok

\* C4: isConnected only when status is connected, and isConnecting only
\* when status is connecting or reconnecting.
C4_FlagsAgreeWithStatus ==
  /\ connectionState.isConnected => connectionState.status = "connected"
  /\ connectionState.isConnecting => connectionState.status \in {"connecting", "reconnecting"}

C4_Witness ==
  /\ connectionState.isConnecting
  /\ connectionState.status = "reconnecting"

C5_Invalid(cfg) == IsSome(validateProjectConfig(Get(cfg)))

\* C5: createProject with a request that violates a validation constraint
\* raises a validation failure and makes no SDK call on its behalf, neither
\* a handshake nor projects.create, whatever the connection state.
C5_InvalidRequestMakesNoSdkCall ==
  /\ \A c \in Slots :
       calls[c].kind = "createProject" /\ C5_Invalid(calls[c].cfg) =>
         calls[c].pc \notin HandshakePcs \cup {"create", "race"}
  /\ \A r \in Settled :
       r.kind = "createProject" /\ C5_Invalid(r.cfg) =>
         ~r.result.ok /\ r.result.error.code = "VALIDATION_ERROR"

\* The duration the timeout race is configured with
ConfiguredTimeout(cfg) == IF cfg.timeout.t = "number" THEN cfg.timeout.v ELSE config.timeout

\* C6: when the timeout timer of a waiting createProject fires first, the
\* call rejects with the Timeout error (TIMEOUT_ERROR) whose details carry
\* the configured duration, and the one projectFailed event carries that
\* same error data, not a PROJECT_ERROR wrapping.
C6_TimeoutPassesThrough ==
  [][TimeoutFires =>
       \E r \in Settled' :
         /\ r.kind = "createProject"
         /\ ~r.result.ok
         /\ r.result.error.name = "SogniTimeoutError"
         /\ r.result.error.code = "TIMEOUT_ERROR"
         /\ r.result.error.details = Some([timeoutMs |-> ConfiguredTimeout(Get(r.cfg))])
         /\ r.result.error.originalError = None
         /\ emitted' = <<[event |-> "projectFailed",
                          payload |-> Some(ToErrorData(r.result.error))]>>]_vars

C6_Witness ==
  \E r \in Settled :
    /\ r.kind = "createProject"
    /\ r.cfg = Some(CfgShortTimeout)
    /\ ~r.result.ok
    /\ r.result.error.code = "TIMEOUT_ERROR"
    /\ r.result.error.details = Some([timeoutMs |-> 1000])

\* C7: when the handshake of a connect() fails, the call re-raises the
\* classified error (Authentication if the cause's message contains 'auth',
\* else Connection), the state is failed (or already rescheduled) with both
\* flags false and lastError the classified error, an error event carries
\* it, and a reconnection is scheduled exactly when reconnect is enabled.
C7_FailedConnectIsClassifiedAndRescheduled ==
  \A r \in SettledConnects :
    r.pc \in HandshakePcs /\ ~r.result.ok =>
      /\ r.result.error.code \in {"AUTHENTICATION_ERROR", "CONNECTION_ERROR"}
      /\ (r.result.error.code = "AUTHENTICATION_ERROR"
            <=> Includes(Get(r.result.error.originalError).message, AuthToken))
      /\ connectionState.status \in {"failed", "reconnecting"}
      /\ ~connectionState.isConnected
      /\ ~connectionState.isConnecting
      /\ connectionState.lastError = Some(ToErrorData(r.result.error))
      /\ [event |-> "error", payload |-> Some(ToErrorData(r.result.error))] \in Emitted
      /\ (config.reconnect <=> reconnectTimer # None)

\* C8: with reconnect enabled, every failed connection attempt fires a
\* reconnecting event whose count is one more than the count before (so 1
\* for the first), and arms the retry with the constant reconnectInterval.
C8_EachFailureCountsOneReconnect ==
  [][attempt' = "failed" /\ config.reconnect =>
       /\ [event |-> "reconnecting",
           payload |-> Some(connectionState.reconnectAttempts + 1)] \in Emitted'
       /\ reconnectTimer' = Some([delay |-> config.reconnectInterval])]_vars

\* C9: a successful attempt leaves status connected, isConnected true,
\* isConnecting false, reconnectAttempts 0 and connectedAt set, and emits
\* one connected event; a connect() that resolves sees that state.
C9_SuccessfulConnectState ==
  /\ attempt = "succeeded" =>
       /\ connectionState.status = "connected"
       /\ connectionState.isConnected
       /\ ~connectionState.isConnecting
       /\ connectionState.reconnectAttempts = 0
       /\ connectionState.connectedAt # None
       /\ EmittedCount("connected") = 1
  /\ \A r \in SettledConnects :
       r.result.ok =>
         /\ connectionState.status = "connected"
         /\ connectionState.reconnectAttempts = 0
         /\ connectionState.connectedAt # None

C9_Witness ==
  /\ attempt = "succeeded"
  /\ \E r \in SettledConnects : r.result.ok /\ r.pc = "waitForModels"
  /\ connectionState.lastError # None

\* C10: whenever a connect() call resolves, isConnected() is true.
C10_ResolvedConnectIsConnected ==
  \A r \in SettledConnects : r.result.ok => isConnected(Cur)

\* disconnect() calls settled in the last turn
SettledDisconnects == {r \in Settled : r.kind = "disconnect"}

\* C11: when disconnect() returns, no reconnect timer is pending, the
\* reconnecting flag is false, the SDK handle is null, status is disconnected
\* with both flags false, isConnected() is false, and the call emitted
\* exactly one disconnected event (and nothing else).
C11_DisconnectPostState ==
  SettledDisconnects # {} =>
    /\ \A r \in SettledDisconnects : r.result.ok
    /\ reconnectTimer = None
    /\ ~isReconnecting
    /\ client = None
    /\ connectionState.status = "disconnected"
    /\ ~connectionState.isConnected
    /\ ~connectionState.isConnecting
    /\ ~isConnected(Cur)
    /\ emitted = <<[event |-> "disconnected", payload |-> None]>>

\* disconnect() returned after reconnections had been scheduled, while a
\* handshake was in flight
C11_Witness ==
  /\ SettledDisconnects # {}
  /\ connectionState.reconnectAttempts > 0
  /\ \E c \in Slots : calls[c].stale

\* C12: disconnect() on a never-connected or already-disconnected instance
\* does not raise and changes nothing of the connection state: it is left
\* exactly as the single disconnect() (or the construction) left it, with
\* isConnected() false.
C12_DisconnectIdempotent ==
  [][Disconnect /\ connectionState.status = "disconnected" =>
       /\ \A r \in SettledDisconnects' : r.result.ok
       /\ connectionState' = connectionState
       /\ client' = None
       /\ reconnectTimer' = reconnectTimer
       /\ isReconnecting' = isReconnecting
       /\ ~(connectionState'.isConnected /\ client' # None)]_vars

\* disconnect() returned on an instance that never started a connection
\* attempt: nothing in flight, never connected, never failed
C12_Witness ==
  /\ SettledDisconnects # {}
  /\ \A c \in Slots : calls[c].kind = "free"
  /\ connectionState.connectedAt = None
  /\ connectionState.lastError = None

\* C13: isConnected() returns true if and only if the connection state says
\* isConnected and the SDK handle is non-null.
C13_IsConnectedIffStateAndHandle ==
  isConnected(Cur) <=> (connectionState.isConnected /\ client # None)

\* The state says connected while the handle is null: isConnected() is false
C13_Witness ==
  /\ connectionState.isConnected
  /\ client = None
  /\ ~isConnected(Cur)

\* C14: at most one reconnect timer is pending, and the wrapper's handle
\* refers to it: a second timer is never armed while one is pending.
C14_AtMostOneReconnectTimer ==
  /\ pendingTimers <= 1
  /\ pendingTimers = 1 <=> reconnectTimer # None

\* A timer is pending while the callback of an earlier timer is still
\* inside its connect(): the guard of scheduleReconnect is what that
\* callback meets when its attempt fails
C14_Witness ==
  /\ pendingTimers = 1
  /\ \E c \in Slots : calls[c].kind = "reconnect" /\ InHandshake(calls[c])

\* What retry() was asked and what the invocations of fn settled with
RetryMaxAttempts == Get(retryCall.options).maxAttempts

RetryFailures == {i \in 1..Len(retryCall.outcomes) : ~retryCall.outcomes[i].ok}

\* C15: createProjectWithRetry with maxAttempts = 3 whose createProject
\* fails twice and then succeeds returns the successful result, having
\* invoked createProject three times and the retry callback twice, with
\* attempt numbers 1 and 2.
C15_FailsTwiceThenSucceeds ==
  /\ retryCall.fn = "createProject"
  /\ RetryMaxAttempts = 3
  /\ Len(retryCall.outcomes) = 3
  /\ RetryFailures = {1, 2}
  => /\ retryCall.pc = "done"
     /\ retryCall.result = Some(retryCall.outcomes[3])
     /\ retryCall.calls = 3
     /\ Len(retryCall.onRetry) = 2
     /\ retryCall.onRetry[1].attempt = 1
     /\ retryCall.onRetry[2].attempt = 2

\* The third createProject of a createProjectWithRetry succeeded after a
\* failed handshake and a project timeout
C15_Witness ==
  /\ retryCall.fn = "createProject"
  /\ retryCall.pc = "done"
  /\ Len(retryCall.outcomes) = 3
  /\ retryCall.outcomes[1].error.code = "CONNECTION_ERROR"
  /\ retryCall.outcomes[2].error.code = "TIMEOUT_ERROR"
  /\ retryCall.outcomes[3].ok

\* The error retry() hands to onRetry and raises for a failure: the failure
\* itself, or the failure normalised to an Error
RaisedAs(normalized, error) == IF normalized THEN NormalizeError(error) ELSE error

\* What retry() does with n = maxAttempts >= 1, for a given reading of
\* which error it hands to onRetry and raises
RetryContract(normalized) ==
  retryCall.fn = "operation" /\ RetryMaxAttempts >= 1 =>
    LET n == RetryMaxAttempts
        outcomes == retryCall.outcomes
        notified == {i \in RetryFailures : i < n}
    IN /\ retryCall.calls <= n
       /\ retryCall.calls = Len(outcomes) + (IF retryCall.pc = "fn" THEN 1 ELSE 0)
       /\ \A i \in 1..Len(outcomes) : outcomes[i].ok => i = Len(outcomes)
       /\ Len(retryCall.onRetry) = Cardinality(notified)
       /\ \A i \in notified :
            retryCall.onRetry[i] = [attempt |-> i, error |-> RaisedAs(normalized, outcomes[i].error)]
       /\ Len(retryCall.sleeps) = Len(retryCall.onRetry)
       /\ retryCall.pc = "done" <=>
            /\ outcomes # <<>>
            /\ outcomes[Len(outcomes)].ok \/ Len(outcomes) = n
       /\ retryCall.pc = "done" =>
            retryCall.result =
              Some(IF outcomes[Len(outcomes)].ok THEN outcomes[Len(outcomes)]
                   ELSE Rejected(RaisedAs(normalized, outcomes[n].error)))
       /\ n = 1 => retryCall.sleeps = <<>> /\ retryCall.onRetry = <<>>

\* C16 as stated: retry with maxAttempts = n >= 1 invokes the operation at
\* most n times, stops at the first success and returns its result, calls
\* onRetry once after each failed attempt but the n-th with attempt numbers
\* 1, 2, ... in order, and raises the n-th failure as the operation raised
\* it; with n = 1 there is no wait and no onRetry call.
C16_RetryRaisesFailureUnchanged == RetryContract(FALSE)

\* C16 amended: the same, where the error handed to onRetry and raised is
\* the operation's failure if it is an Error, and otherwise a new Error
\* whose message is String(failure).
C16_RetryRaisesNormalizedFailure == RetryContract(TRUE)

\* retry() with maxAttempts = 3 raised its third failure, a thrown non-Error
C16_Witness ==
  /\ retryCall.fn = "operation"
  /\ retryCall.pc = "done"
  /\ RetryMaxAttempts = 3
  /\ Len(retryCall.outcomes) = 3
  /\ ~retryCall.outcomes[3].ok
  /\ ~InstanceOfError(retryCall.outcomes[3].error)
  /\ Len(retryCall.onRetry) = 2

RECURSIVE Pow(_, _)
Pow(b, e) == IF e = 0 THEN 1 ELSE b * Pow(b, e - 1)

\* C17: the wait before the (k+1)-th attempt is
\* min(initialDelay * backoffFactor^(k-1), maxDelay): no wait, the first
\* included, exceeds maxDelay.
C17_EveryWaitIsCapped ==
  retryCall.pc # "idle" =>
    LET options == Get(retryCall.options)
    IN \A k \in 1..Len(retryCall.sleeps) :
         /\ retryCall.sleeps[k] =
              Min(options.initialDelay * Pow(options.backoffFactor, k - 1), options.maxDelay)
         /\ retryCall.sleeps[k] <= options.maxDelay

BadCredential(x) == ~(x.t = "string" /\ x.v # "")

\* C18: constructing with a username or password that is missing, empty or
\* not a string raises a validation failure before any SDK call, also with
\* autoConnect enabled: an object exists only for good credentials, and a
\* refused construction has started no connection attempt.
C18_BadCredentialsRefused ==
  /\ Constructed => ~BadCredential(config.username) /\ ~BadCredential(config.password)
  /\ \A r \in Settled :
       r.kind = "constructor" =>
         /\ ~r.result.ok
         /\ r.result.error.code = "VALIDATION_ERROR"
         /\ client = None
         /\ \A c \in Slots : calls[c].kind = "free"
         /\ connectionState.status = "disconnected"

\* A construction with autoConnect left enabled and a non-string password
\* was refused
C18_Witness ==
  \E r \in Settled :
    /\ r.kind = "constructor"
    /\ Get(r.cfg).autoConnect = Undefined
    /\ Get(r.cfg).username = Str("alice")
    /\ Get(r.cfg).password = Bool(TRUE)
    /\ r.result.error.code = "VALIDATION_ERROR"

Raised == {raised[i] : i \in 1..Len(raised)}

Invoked == {invoked[i] : i \in 1..Len(invoked)}

\* C19: for every progress notification the SDK raises on a project, the
\* wrapper emits a projectProgress event for that project, and calls the
\* caller's onProgress when one was supplied.
C19_ProgressIsReEmitted ==
  \A n \in Raised :
    n.event = "progress" =>
      /\ [event |-> "projectProgress",
          payload |-> Some(ProgressData(n.cfg, n.payload))] \in Emitted
      /\ Truthy(n.cfg.onProgress) =>
           [callback |-> "onProgress", payload |-> ProgressData(n.cfg, n.payload)] \in Invoked

\* C20: for every job the SDK reports completed (or failed) on a project,
\* the wrapper emits one jobCompleted (or jobFailed) event.
C20_JobEventsAreEmitted ==
  \A n \in Raised :
    /\ n.event = "jobCompleted" => EmittedCount("jobCompleted") = 1
    /\ n.event = "jobFailed" => EmittedCount("jobFailed") = 1

\* createProject invocations that settled in the last turn
SettledProjects == {r \in Settled : r.kind = "createProject"}

\* waitForCompletion = true of createProject's destructuring
WaitsForCompletion(cfg) ==
  IF cfg.waitForCompletion = Undefined THEN TRUE ELSE Truthy(cfg.waitForCompletion)

\* C21: when the SDK completes the project of a waiting createProject before
\* the timeout, the call returns {project, imageUrls, completed: true} and
\* has emitted exactly projectCreated and then projectCompleted, once each,
\* and no projectFailed.
C21_CompletedProjectResult ==
  [][CompletionResolves =>
       /\ Len(returned') = 1
       /\ \E r \in SettledProjects' :
            /\ r.pc = "race"
            /\ WaitsForCompletion(Get(r.cfg))
            /\ r.result = Resolved([project |-> "project", completed |-> TRUE,
                                    imageUrls |-> Some(<<"url">>)])
            /\ r.events = <<"projectCreated", "projectCompleted">>
            /\ emitted' = <<[event |-> "projectCompleted", payload |-> Some(r.result.value)]>>]_vars

\* A createProject that waited returned the completed project
C21_Witness ==
  \E r \in SettledProjects :
    /\ r.pc = "race"
    /\ r.result.ok
    /\ r.result.value.completed
    /\ r.events = <<"projectCreated", "projectCompleted">>

\* C22: with waitForCompletion false, createProject returns as soon as the
\* SDK has created the project, with completed = false and no imageUrls: it
\* never waits for the completion, arms no timeout and emits neither
\* projectCompleted nor projectFailed.
C22_NoWaitReturnsAtCreation ==
  /\ \A c \in Slots :
       calls[c].kind = "createProject" /\ ~WaitsForCompletion(Get(calls[c].cfg)) =>
         calls[c].pc # "race" /\ calls[c].timeout = None
  /\ \A r \in SettledProjects :
       ~WaitsForCompletion(Get(r.cfg)) /\ r.result.ok =>
         /\ r.pc = "create"
         /\ r.result.value = [project |-> "project", completed |-> FALSE, imageUrls |-> None]
         /\ r.timeout = None
         /\ r.events = <<"projectCreated">>
         /\ emitted = <<[event |-> "projectCreated", payload |-> Some("project")]>>

\* A createProject with waitForCompletion false returned at the creation
C22_Witness ==
  \E r \in SettledProjects :
    /\ Get(r.cfg).waitForCompletion = Bool(FALSE)
    /\ r.pc = "create"
    /\ r.result.ok
    /\ ~r.result.value.completed

\* C23: when the SDK's project creation or completion rejects (with
\* something that is no Timeout error), createProject wraps the cause in a
\* Project error (PROJECT_ERROR, the cause kept as originalError), emits
\* exactly one projectFailed event carrying it, and re-raises that error.
C23_FailureIsWrappedAndReRaised ==
  [][ProjectsCreateRejects \/ CompletionRejects =>
       /\ Len(returned') = 1
       /\ \E r \in SettledProjects' :
            /\ ~r.result.ok
            /\ r.result.error.name = "SogniProjectError"
            /\ r.result.error.code = "PROJECT_ERROR"
            /\ \E cause \in SdkCauses : r.result.error.originalError = Some(cause)
            /\ emitted' = <<[event |-> "projectFailed",
                             payload |-> Some(ToErrorData(r.result.error))]>>
            /\ Cardinality({i \in 1..Len(r.events) : r.events[i] = "projectFailed"}) = 1
            /\ r.events[Len(r.events)] = "projectFailed"]_vars

\* A waiting createProject was rejected with a Project error wrapping the
\* cause the SDK's completion rejected with
C23_Witness ==
  \E r \in SettledProjects :
    /\ r.pc = "race"
    /\ ~r.result.ok
    /\ r.result.error.code = "PROJECT_ERROR"
    /\ r.result.error.originalError = Some(CauseDown)
    /\ r.events = <<"projectCreated", "projectFailed">>

\* C24: connect() called while the state says connected is a no-op: it
\* starts no SDK call and waits for nothing, emits no event, and leaves the
\* connection state, the SDK handle, the reconnect timer and the
\* reconnecting flag unchanged; its promise resolves.
C24_ConnectWhenConnectedIsNoOp ==
  [][Connect /\ connectionState.isConnected =>
       /\ UNCHANGED <<connectionState, client, reconnectTimer, pendingTimers, isReconnecting,
                      calls>>
       /\ emitted' = <<>>
       /\ Len(returned') = 1
       /\ returned'[1].kind = "connect"
       /\ returned'[1].result = Resolved(Void)]_vars

\* connect() returned at once on a connected wrapper
C24_Witness ==
  /\ connectionState.isConnected
  /\ connectionState.status = "connected"
  /\ \E r \in SettledConnects : r.pc = "idle" /\ r.result.ok

\* Nothing is in progress: no invocation, no SDK call awaited, no timer armed
Quiet == (\A c \in Slots : calls[c] = FreeCall) /\ pendingTimers = 0

\* C25: a wrapper constructed with autoConnect = false starts disconnected
\* (isConnected and isConnecting false, reconnectAttempts 0, isConnected()
\* false) with no SDK call made, and the first SDK call is started by
\* connect() or by a connection-ensuring operation.
C25_NoAutoConnectStartsIdle ==
  /\ connectionState.status = "disconnected"
  /\ ~connectionState.isConnected
  /\ ~connectionState.isConnecting
  /\ connectionState.reconnectAttempts = 0
  /\ ~isConnected(Cur)
  /\ client = None
  /\ Quiet
  /\ [][Quiet /\ ~Quiet' => Connect \/ GetAvailableModels]_vars

\* getAvailableModels() started the first handshake of a wrapper that had
\* made no SDK call, after the caller registered an error listener
C25_Witness ==
  /\ errorListener
  /\ \E c \in Slots : calls[c].kind = "getAvailableModels" /\ calls[c].pc = "createInstance"
  /\ \A c \in Slots : calls[c].kind \in {"getAvailableModels", "free"}
  /\ connectionState.reconnectAttempts = 0
  /\ connectionState.lastError = None
  /\ connectionState.connectedAt = None

\* C26 as stated: for every error of the taxonomy, however constructed, the
\* ErrorData returned by toErrorData() has a non-empty code and a non-empty
\* message, equal to the error's own code and message.
C26_ErrorDataNonEmpty ==
  probe.fn = "toErrorData" =>
    /\ probe.data.code = probe.error.code
    /\ probe.data.message = probe.error.message
    /\ probe.data.code # ""
    /\ probe.data.message # ""

\* C26 amended: the ErrorData has the error's own code and message; the
\* code is non-empty when the code the error was constructed with is (every
\* kind but the base error fixes its own), and the message is non-empty when
\* the message it was constructed from is.
C26_ErrorDataEqualsError ==
  probe.fn = "toErrorData" =>
    /\ probe.data.code = probe.error.code
    /\ probe.data.message = probe.error.message
    /\ probe.given.code # "" => probe.data.code # ""
    /\ probe.given.message # "" => probe.data.message # ""
    /\ probe.error.name # "SogniError" => probe.data.code # ""

\* fromError wrapped a thrown Error under the default code, and the
\* ErrorData carries that code and the Error's message
C26_Witness ==
  /\ probe.fn = "toErrorData"
  /\ probe.error.originalError = Some(JsError("boom"))
  /\ probe.data.code = DefaultErrorCode
  /\ probe.data.message = "boom"

\* A number within lo..hi
InRange(x, lo, hi) == x.t = "number" /\ x # NaN /\ lo <= x.v /\ x.v <= hi

\* The constraints on a request in the order of C27, each with whether the
\* request violates it and the failure that names it
Constraints(cfg) ==
  <<[violated |-> ~(cfg.modelId.t = "string" /\ cfg.modelId.v # ""),
     message |-> "Model ID is required and must be a string"],
    [violated |-> ~(cfg.positivePrompt.t = "string" /\ cfg.positivePrompt.v # ""),
     message |-> "Positive prompt is required and must be a string"],
    [violated |-> cfg.numberOfImages # Undefined /\ ~InRange(cfg.numberOfImages, 1, 10),
     message |-> "Number of images must be between 1 and 10"],
    [violated |-> cfg.steps # Undefined /\ ~InRange(cfg.steps, 1, 100),
     message |-> "Steps must be between 1 and 100"],
    [violated |-> cfg.guidance # Undefined /\ ~InRange(cfg.guidance, 0, 30),
     message |-> "Guidance must be between 0 and 30"],
    [violated |-> cfg.width # Undefined /\ ~InRange(cfg.width, 256, 2048),
     message |-> "Width must be between 256 and 2048"],
    [violated |-> cfg.height # Undefined /\ ~InRange(cfg.height, 256, 2048),
     message |-> "Height must be between 256 and 2048"],
    [violated |-> cfg.tokenType # Undefined /\ cfg.tokenType \notin {Str("sogni"), Str("spark")},
     message |-> "Token type must be either \"sogni\" or \"spark\""],
    [violated |-> cfg.outputFormat # Undefined /\ cfg.outputFormat \notin {Str("png"), Str("jpg")},
     message |-> "Output format must be either \"png\" or \"jpg\""]>>

Violated(cfg) == {i \in 1..Len(Constraints(cfg)) : Constraints(cfg)[i].violated}

FirstViolated(cfg) == CHOOSE i \in Violated(cfg) : \A j \in Violated(cfg) : i <= j

\* C27: validateProjectConfig raises exactly one validation failure, naming
\* the first violated constraint in the order model id, prompt, image count
\* (1..10), steps (1..100), guidance (0..30), width (256..2048), height
\* (256..2048), token type, output format; a request violating none raises
\* nothing.
C27_FirstViolationIsRaised ==
  probe.fn = "validateProjectConfig" =>
    IF Violated(probe.cfg) = {} THEN probe.thrown = None
    ELSE probe.thrown =
           Some(SogniValidationError(Constraints(probe.cfg)[FirstViolated(probe.cfg)].message))

\* The worker counts of the models the SDK lists
WorkerCounts(models) == {models[i].workerCount : i \in 1..Len(models)}

\* C28: getMostPopularModel returns one of the available models whose worker
\* count is the maximum over all of them, and raises a NO_MODELS_AVAILABLE
\* error when the SDK lists no models.
C28_MostPopularHasMostWorkers ==
  probe.fn = "getMostPopularModel" =>
    IF probe.models = <<>>
      THEN ~probe.result.ok /\ probe.result.error.code = "NO_MODELS_AVAILABLE"
      ELSE /\ probe.result.ok
           /\ \A w \in WorkerCounts(probe.models) : probe.result.value.workerCount >= w
           /\ \E i \in 1..Len(probe.models) :
                /\ probe.models[i].id = probe.result.value.id
                /\ probe.models[i].workerCount = probe.result.value.workerCount

\* The most popular of three models is the last one listed, and the models
\* before it have fewer workers
C28_Witness ==
  /\ probe.fn = "getMostPopularModel"
  /\ Len(probe.models) = 3
  /\ probe.models[1].workerCount = 0
  /\ probe.models[2].workerCount = 3
  /\ probe.models[3].workerCount = 7
  /\ probe.result.ok
  /\ probe.result.value.id = probe.models[3].id

\* C29: with reconnect enabled and no disconnect(), after a failed
\* connection attempt the wrapper keeps retrying: a new attempt follows
\* unless the wrapper is connected meanwhile (for the failures that leave
\* room for one more reconnection within MaxReconnectAttempts); when it is
\* connected, the reconnecting flag is cleared in the end.
C29_KeepsRetrying ==
  /\ (/\ config.reconnect
      /\ attempt = "failed"
      /\ connectionState.reconnectAttempts < MaxReconnectAttempts)
       ~> (InFlight # {} \/ connectionState.status = "connected")
  /\ (config.reconnect /\ connectionState.status = "connected") ~> ~isReconnecting

\* The changes of status the lifecycle is described with
LifecycleChanges ==
  {<<"disconnected", "connecting">>,
   <<"connecting", "connected">>,
   <<"connecting", "failed">>,
   <<"failed", "reconnecting">>,
   <<"reconnecting", "connecting">>}

\* C30: every change of connectionState.status is disconnected->connecting,
\* connecting->connected, connecting->failed, failed->reconnecting or
\* reconnecting->connecting, or a change to disconnected made by
\* disconnect(); status becomes connected or failed from connecting only.
\* A turn in which a failed attempt reschedules goes from connecting through
\* failed to reconnecting.
C30_StatusFollowsLifecycle ==
  [][connectionState'.status # connectionState.status =>
       \/ <<connectionState.status, connectionState'.status>> \in LifecycleChanges
       \/ /\ connectionState.status = "connecting"
          /\ connectionState'.status = "reconnecting"
          /\ attempt' = "failed"
       \/ connectionState'.status = "disconnected" /\ Disconnect]_vars

\* C31: every failure a connect() call rejects with is a classified error of
\* the taxonomy, an Authentication error or a Connection error, also when
\* the call waited on an attempt already in flight.
C31_ConnectRejectsClassified ==
  \A r \in SettledConnects :
    ~r.result.ok =>
      /\ r.result.error.name \in {"SogniAuthenticationError", "SogniConnectionError"}
      /\ r.result.error.code \in {"AUTHENTICATION_ERROR", "CONNECTION_ERROR"}

\* C32: whenever connectionState.isConnected is true the SDK handle is
\* non-null, for every interleaving of connect(), its completion and
\* disconnect(); hence no connection-ensuring operation fails by reading a
\* property of a null handle.
C32_ConnectedHasHandle ==
  /\ connectionState.isConnected => client # None
  /\ \A r \in Settled :
       r.kind \in {"getAvailableModels", "getBalance", "getSizePresets"} /\ ~r.result.ok =>
         /\ r.result.error # CauseNullDeref
         /\ r.result.error.originalError # Some(CauseNullDeref)

\* C33: once disconnect() has returned, the wrapper stays disconnected until
\* the caller next invokes connect(): whatever else happens while status is
\* disconnected (a handshake that was in flight settles, a timer fires)
\* leaves status disconnected and no reconnect timer armed, and emits no
\* connected, reconnecting or reconnected event.
C33_StaysDisconnected ==
  [][connectionState.status = "disconnected" /\ ~Connect =>
       /\ connectionState'.status = "disconnected"
       /\ reconnectTimer' = None
       /\ pendingTimers' = 0
       /\ \A e \in Emitted' : e.event \notin {"connected", "reconnecting", "reconnected"}]_vars

\* C34: with reconnect enabled, whenever status is failed or reconnecting a
\* reconnect timer is pending or a connection handshake is in flight, also
\* when a connect() of the caller overlaps the reconnect timer.
C34_ReconnectionNeverStalls ==
  config.reconnect /\ connectionState.status \in {"failed", "reconnecting"} =>
    pendingTimers > 0 \/ InFlight # {}

\* C35: each failed connection attempt causes exactly one error event,
\* whether the attempt was started by connect(), by the auto-connect of the
\* constructor or by the reconnect timer.
C35_OneErrorPerFailedAttempt ==
  attempt = "failed" => EmittedCount("error") = 1

\* The createProject invocations of createProjectWithRetry that settled in
\* the last turn
SettledAttempts == {r \in Settled : r.kind = "retryProject"}

\* The positions of the terminal events among the events of one invocation
TerminalEvents(events) ==
  {i \in 1..Len(events) : events[i] \in {"projectCompleted", "projectFailed"}}

\* C36: a createProject call emits at most one terminal event, and emits it
\* as it settles: projectCompleted exactly when it returns completed = true,
\* projectFailed exactly when it raises after validation; a projectCompleted
\* event is emitted only in the turn in which a call returns the completed
\* project, so none follows a timeout failure when the abandoned SDK project
\* finishes in the background. (The listeners of the events return normally.)
C36_AtMostOneTerminalEvent ==
  /\ [](/\ \A c \in Slots :
             calls[c].kind = "retryProject" => TerminalEvents(calls[c].events) = {}
        /\ \A r \in SettledAttempts :
             /\ Cardinality(TerminalEvents(r.events)) <= 1
             /\ TerminalEvents(r.events) \subseteq {Len(r.events)}
             /\ r.result.ok =>
                  /\ r.result.value.completed
                  /\ r.events = <<"projectCreated", "projectCompleted">>
             /\ ~r.result.ok /\ r.pc \in {"create", "race"} =>
                  r.events[Len(r.events)] = "projectFailed"
             /\ ~r.result.ok /\ r.pc \notin {"create", "race"} => r.events = <<>>)
  /\ [][/\ EmittedCount("projectCompleted")'
             = Cardinality({r \in SettledAttempts' : r.result.ok})
        /\ BackgroundCompletion => emitted' = <<>> /\ returned' = <<>>]_vars

\* A createProject failed by timeout, its retry() gave up, and the project
\* it had created then finished in the background
C36_Witness ==
  /\ retryCall.pc = "done"
  /\ Len(retryCall.outcomes) = 1
  /\ ~retryCall.outcomes[1].ok
  /\ retryCall.outcomes[1].error.code = "TIMEOUT_ERROR"
  /\ retryCall.running = 0
  /\ returned = <<>>

\* C37: createProjectWithRetry does not retry a request that fails
\* validation: the validation failure is raised to the caller after that
\* one createProject attempt, with no wait and no further attempt.
C37_ValidationFailureIsNotRetried ==
  retryCall.fn = "createProject" =>
    \A i \in 1..Len(retryCall.outcomes) :
      ~retryCall.outcomes[i].ok /\ retryCall.outcomes[i].error.code = "VALIDATION_ERROR" =>
        /\ i = Len(retryCall.outcomes)
        /\ retryCall.calls = i
        /\ Len(retryCall.sleeps) < i
        /\ Len(retryCall.onRetry) < i
        /\ retryCall.pc = "done"
        /\ retryCall.result = Some(retryCall.outcomes[i])

\* C38: within one createProjectWithRetry call at most one SDK project
\* created by the call is running at any time: an attempt creates its
\* project only after the project of the attempt before has finished, also
\* when that attempt ended by timeout.
C38_OneProjectRunning ==
  retryCall.fn = "createProject" => retryCall.running <= 1

\* C39: whether or not a listener is registered for the 'error' event, a
\* failed connection attempt re-raises the classified Authentication or
\* Connection error to the connect() that ran it and, with reconnect enabled
\* and no reconnection under way, schedules one.
C39_FailureHandledWithoutListener ==
  [][attempt' = "failed" =>
       /\ \A r \in SettledConnects' :
            r.pc \in HandshakePcs =>
              /\ ~r.result.ok
              /\ r.result.error.code \in {"AUTHENTICATION_ERROR", "CONNECTION_ERROR"}
              /\ connectionState'.lastError = Some(ToErrorData(r.result.error))
       /\ config.reconnect /\ ~isReconnecting /\ reconnectTimer = None =>
            /\ reconnectTimer' = Some([delay |-> config.reconnectInterval])
            /\ isReconnecting'
            /\ connectionState'.status = "reconnecting"]_vars

====
